---- MODULE Spec2Model ----
(***************************************************************************)
(* Model of the report relay in src/main.rs: the dedup Cache, the tokio     *)
(* Mutex around it, and the report_route handler that decides whether a     *)
(* submission is sent to the webhook (WebhookClient.send).                  *)
(*                                                                         *)
(* Strings are sequences of one-character strings, so that the dedup key    *)
(* format!("{} - {}", ext_version, message) and the footer                  *)
(* format!("v{}", ext_version) are computed by concatenation, as the code   *)
(* computes them.                                                           *)
(***************************************************************************)
EXTENDS Integers, Sequences, FiniteSets, TLC

\* Number of requests (one report_route execution each) in a run.
NumHandlers == 3

Handlers == 1..NumHandlers

\* ---------------------------------------------------------------- inputs

\* enum ReportType
ReportType == {"Manual", "Automatic"}

\* The literal " - " of the key format string.
KeySep == <<" ", "-", " ">>

\* The literal "v" of the footer format string.
FooterPrefix == <<"v">>

\* ext_version values of the requests: a plain version and one that holds
\* the separator.
ExtVersions == { <<"1">>, <<"1", " ", "-", " ", "x">> }

\* message values of the requests: a plain message and one that holds the
\* separator.
Messages == { <<"x">>, <<"x", " ", "-", " ", "x">> }

\* struct ReportBody
ReportBody == [report_type : ReportType, message : Messages, ext_version : ExtVersions]

\* struct AppConfig (the two fields report_route reads)
AppConfig == [webhook_url |-> "webhook-url", webhook_avatar_url |-> "webhook-avatar-url"]

\* ---------------------------------------------------------------- Cache

\* Cache::new : an empty HashMap<String, bool>
Cache_new == << >>

\* Cache::contains
Cache_contains(data, key) == key \in DOMAIN data

\* Variant of Cache::insert: the marker of a present key is flipped.
Cache_insert_toggle(data, key, value) ==
  [k \in (DOMAIN data) \cup {key} |->
     IF k = key THEN (IF key \in DOMAIN data THEN ~data[key] ELSE value) ELSE data[k]]

\* Variant of Cache::insert: the map keeps only the newest key.
Cache_insert_evict(data, key, value) == [k \in {key} |-> value]

\* Cache::insert : HashMap::insert overwrites the value of a present key
Cache_insert(data, key, value) ==
  [k \in (DOMAIN data) \cup {key} |-> IF k = key THEN value ELSE data[k]]

\* ---------------------------------------------------------------- pure parts of report_route

\* Variant of DedupKey: the key leaves out the extension version.
DedupKey_messageOnly(b) == b.message

\* format!("{} - {}", body.ext_version, body.message)
DedupKey(b) == b.ext_version \o KeySep \o b.message

\* Variant of Payload: the two titles are swapped and the footer lacks
\* its "v".
Payload_swapped(b) ==
  [ username    |-> "WNPRedux Reporter",
    avatar_url  |-> AppConfig.webhook_avatar_url,
    title       |-> IF b.report_type = "Automatic" THEN "Manual Report" ELSE "Automatic Report",
    description |-> b.message,
    footer      |-> b.ext_version ]

\* The message built by the closure handed to WebhookClient.send
Payload(b) ==
  [ username    |-> "WNPRedux Reporter",
    avatar_url  |-> AppConfig.webhook_avatar_url,
    title       |-> IF b.report_type = "Automatic" THEN "Automatic Report" ELSE "Manual Report",
    description |-> b.message,
    footer      |-> FooterPrefix \o b.ext_version ]

\* Variant of SendResult: the outcome of the send is ignored.
SendResult_alwaysOk(is_err) == "OK"

\* The value report_route returns after send: Err(500) if is_err, else Ok("OK")
SendResult(is_err) == IF is_err THEN "Err" ELSE "OK"

\* ---------------------------------------------------------------- state

VARIABLES
  pc,       \* pc[h]: position of handler h in report_route
  body,     \* body[h]: the ReportBody of handler h
  msg,      \* msg[h]: the local `msg` (dedup key) of handler h
  cache,    \* Cache.data, the HashMap behind the Mutex
  mutex,    \* holder of the Mutex<Cache> guard, 0 when free
  calls,    \* calls[h]: payloads handler h handed to WebhookClient.send
  replies,  \* replies[h]: is_err() of each answered send of handler h
  result    \* result[h]: what report_route returned to the caller

vars == <<pc, body, msg, cache, mutex, calls, replies, result>>

NoBody == [report_type |-> "None", message |-> << >>, ext_version |-> << >>]
NoMsg == << >>
Free == 0

\* rocket(): the cache is created empty, the mutex free, no request received.
Init ==
  /\ pc = [h \in Handlers |-> "idle"]
  /\ body = [h \in Handlers |-> NoBody]
  /\ msg = [h \in Handlers |-> NoMsg]
  /\ cache = Cache_new
  /\ mutex = Free
  /\ calls = [h \in Handlers |-> << >>]
  /\ replies = [h \in Handlers |-> << >>]
  /\ result = [h \in Handlers |-> "None"]

\* ---------------------------------------------------------------- report_route

\* Variant of Receive: the dedup branch is taken for every kind of report.
Receive_dedupAll(h) ==
  /\ pc[h] = "idle"
  /\ \E b \in ReportBody :
       /\ body' = [body EXCEPT ![h] = b]
       /\ msg' = [msg EXCEPT ![h] = DedupKey(b)]
       /\ pc' = [pc EXCEPT ![h] = "lock"]
  /\ UNCHANGED <<cache, mutex, calls, replies, result>>

\* Lines 65-68: a request arrives, the body is unwrapped, the kind is tested;
\* an Automatic report computes its key and goes to the lock, a Manual one
\* goes straight to the send.
Receive(h) ==
  /\ pc[h] = "idle"
  /\ \E b \in ReportBody :
       /\ body' = [body EXCEPT ![h] = b]
       /\ IF b.report_type = "Automatic"
            THEN /\ msg' = [msg EXCEPT ![h] = DedupKey(b)]
                 /\ pc' = [pc EXCEPT ![h] = "lock"]
            ELSE /\ msg' = msg
                 /\ pc' = [pc EXCEPT ![h] = "send"]
  /\ UNCHANGED <<cache, mutex, calls, replies, result>>

\* Variant of Lock: the lock is handed out while another handler holds it.
Lock_noWait(h) ==
  /\ pc[h] = "lock"
  /\ mutex' = h
  /\ pc' = [pc EXCEPT ![h] = "check"]
  /\ UNCHANGED <<body, msg, cache, calls, replies, result>>

\* Line 69: cache.lock().await completes when the mutex is free.
Lock(h) ==
  /\ pc[h] = "lock"
  /\ mutex = Free
  /\ mutex' = h
  /\ pc' = [pc EXCEPT ![h] = "check"]
  /\ UNCHANGED <<body, msg, cache, calls, replies, result>>

\* Variant of Check: the insert of line 73 is missing.
Check_noInsert(h) ==
  /\ pc[h] = "check"
  /\ mutex = h
  /\ IF Cache_contains(cache, msg[h])
       THEN /\ result' = [result EXCEPT ![h] = "OK"]
            /\ mutex' = Free
            /\ pc' = [pc EXCEPT ![h] = "done"]
            /\ cache' = cache
       ELSE /\ cache' = cache
            /\ pc' = [pc EXCEPT ![h] = "unlock"]
            /\ UNCHANGED <<result, mutex>>
  /\ UNCHANGED <<body, msg, calls, replies>>

\* Variant of Check: the guard is bound in the function scope, so it is
\* still held when the handler goes on to the send.
Check_keepGuard(h) ==
  /\ pc[h] = "check"
  /\ mutex = h
  /\ IF Cache_contains(cache, msg[h])
       THEN /\ result' = [result EXCEPT ![h] = "OK"]
            /\ mutex' = Free
            /\ pc' = [pc EXCEPT ![h] = "done"]
            /\ cache' = cache
       ELSE /\ cache' = Cache_insert(cache, msg[h], TRUE)
            /\ pc' = [pc EXCEPT ![h] = "send"]
            /\ UNCHANGED <<result, mutex>>
  /\ UNCHANGED <<body, msg, calls, replies>>

\* Variant of Check: the early return of line 71 is missing, a present key
\* falls through to the send.
Check_dupSends(h) ==
  /\ pc[h] = "check"
  /\ mutex = h
  /\ cache' = Cache_insert(cache, msg[h], TRUE)
  /\ pc' = [pc EXCEPT ![h] = "unlock"]
  /\ UNCHANGED <<body, msg, mutex, calls, replies, result>>

\* Variant of Check: the insert is done before the test of line 70.
Check_insertFirst(h) ==
  /\ pc[h] = "check"
  /\ mutex = h
  /\ cache' = Cache_insert(cache, msg[h], TRUE)
  /\ result' = [result EXCEPT ![h] = "OK"]
  /\ mutex' = Free
  /\ pc' = [pc EXCEPT ![h] = "done"]
  /\ UNCHANGED <<body, msg, calls, replies>>

\* Variant of Check: the early return of line 71 leaks the guard.
Check_leakGuard(h) ==
  /\ pc[h] = "check"
  /\ mutex = h
  /\ IF Cache_contains(cache, msg[h])
       THEN /\ result' = [result EXCEPT ![h] = "OK"]
            /\ pc' = [pc EXCEPT ![h] = "done"]
            /\ UNCHANGED <<cache, mutex>>
       ELSE /\ cache' = Cache_insert(cache, msg[h], TRUE)
            /\ pc' = [pc EXCEPT ![h] = "unlock"]
            /\ UNCHANGED <<result, mutex>>
  /\ UNCHANGED <<body, msg, calls, replies>>

\* Lines 70-73: under the guard, a present key returns Ok("OK") (the guard
\* is dropped by the return); an absent key is inserted.
Check(h) ==
  /\ pc[h] = "check"
  /\ mutex = h
  /\ IF Cache_contains(cache, msg[h])
       THEN /\ result' = [result EXCEPT ![h] = "OK"]
            /\ mutex' = Free
            /\ pc' = [pc EXCEPT ![h] = "done"]
            /\ cache' = cache
       ELSE /\ cache' = Cache_insert(cache, msg[h], TRUE)
            /\ pc' = [pc EXCEPT ![h] = "unlock"]
            /\ UNCHANGED <<result, mutex>>
  /\ UNCHANGED <<body, msg, calls, replies>>

\* Line 74: the guard declared inside the if block is dropped at its end.
Unlock(h) ==
  /\ pc[h] = "unlock"
  /\ mutex = h
  /\ mutex' = Free
  /\ pc' = [pc EXCEPT ![h] = "send"]
  /\ UNCHANGED <<body, msg, cache, calls, replies, result>>

\* Variant of SendBegin: the key is marked seen at the send, for every kind.
SendBegin_markSeen(h) ==
  /\ pc[h] = "send"
  /\ calls' = [calls EXCEPT ![h] = Append(@, Payload(body[h]))]
  /\ cache' = Cache_insert(cache, DedupKey(body[h]), TRUE)
  /\ pc' = [pc EXCEPT ![h] = "sending"]
  /\ UNCHANGED <<body, msg, mutex, replies, result>>

\* Lines 76-93: the client is built and send is called with the payload.
SendBegin(h) ==
  /\ pc[h] = "send"
  /\ calls' = [calls EXCEPT ![h] = Append(@, Payload(body[h]))]
  /\ pc' = [pc EXCEPT ![h] = "sending"]
  /\ UNCHANGED <<body, msg, cache, mutex, replies, result>>

\* Variant of SendReturn: a failed send of an Automatic report takes its
\* key out of the cache again.
SendReturn_rollback(h) ==
  /\ pc[h] = "sending"
  /\ \E is_err \in BOOLEAN :
       /\ replies' = [replies EXCEPT ![h] = Append(@, is_err)]
       /\ result' = [result EXCEPT ![h] = SendResult(is_err)]
       /\ cache' = IF is_err /\ body[h].report_type = "Automatic"
                     THEN [k \in (DOMAIN cache) \ {msg[h]} |-> cache[k]]
                     ELSE cache
  /\ pc' = [pc EXCEPT ![h] = "done"]
  /\ UNCHANGED <<body, msg, mutex, calls>>

\* Variant of SendReturn: a failed send is attempted once more.
SendReturn_retry(h) ==
  /\ pc[h] = "sending"
  /\ \E is_err \in BOOLEAN :
       /\ replies' = [replies EXCEPT ![h] = Append(@, is_err)]
       /\ IF is_err /\ Len(calls[h]) < 2
            THEN /\ pc' = [pc EXCEPT ![h] = "send"]
                 /\ result' = result
            ELSE /\ pc' = [pc EXCEPT ![h] = "done"]
                 /\ result' = [result EXCEPT ![h] = SendResult(is_err)]
  /\ UNCHANGED <<body, msg, cache, mutex, calls>>

\* Lines 93-99: the send future resolves, with an error or not, and the
\* handler returns accordingly.
SendReturn(h) ==
  /\ pc[h] = "sending"
  /\ \E is_err \in BOOLEAN :
       /\ replies' = [replies EXCEPT ![h] = Append(@, is_err)]
       /\ result' = [result EXCEPT ![h] = SendResult(is_err)]
  /\ pc' = [pc EXCEPT ![h] = "done"]
  /\ UNCHANGED <<body, msg, cache, mutex, calls>>

Next ==
  \E h \in Handlers :
    \/ Receive(h)
    \/ Lock(h)
    \/ Check(h)
    \/ Unlock(h)
    \/ SendBegin(h)
    \/ SendReturn(h)

Spec == Init /\ [][Next]_vars

\* ---------------------------------------------------------------- scheduling

\* Number of requests in the runs checked for progress.
NumLiveHandlers == 2

LiveHandlers == 1..NumLiveHandlers

LiveNext ==
  \E h \in LiveHandlers :
    \/ Receive(h)
    \/ Lock(h)
    \/ Check(h)
    \/ Unlock(h)
    \/ SendBegin(h)
    \/ SendReturn(h)

\* The handler's own steps: the runtime keeps polling a task that can run,
\* and lock().await completes once the mutex is free.
HandlerFairness ==
  \A h \in LiveHandlers :
    /\ WF_vars(Lock(h))
    /\ WF_vars(Check(h))
    /\ WF_vars(Unlock(h))
    /\ WF_vars(SendBegin(h))

\* Fair scheduling of the handlers and a sink that answers every call.
FairSpec ==
  /\ Init /\ [][LiveNext]_vars
  /\ HandlerFairness
  /\ \A h \in LiveHandlers : WF_vars(SendReturn(h))

\* Fair scheduling of the handlers, with a sink that may never answer.
SlowSinkSpec ==
  /\ Init /\ [][LiveNext]_vars
  /\ HandlerFairness

\* ---------------------------------------------------------------- Cache alone

\* Longest key and largest cache of the runs that exercise the Cache alone.
MaxKeyLen == 2
MaxCacheSize == 3

\* Characters of the keys handed to the Cache.
KeyChars == {"1", "x", "-"}

\* The keys handed to the Cache: every non-empty String up to MaxKeyLen.
CacheKeys == UNION {[1..n -> KeyChars] : n \in 1..MaxKeyLen}

\* cache.insert(key, true) as line 73 calls it, for any key, present or not.
CacheInsert(key) ==
  /\ Cache_contains(cache, key) \/ Cardinality(DOMAIN cache) < MaxCacheSize
  /\ cache' = Cache_insert(cache, key, TRUE)
  /\ UNCHANGED <<pc, body, msg, mutex, calls, replies, result>>

CacheNext == \E key \in CacheKeys : CacheInsert(key)

\* The Cache on its own: created empty, then any sequence of inserts.
CacheSpec == Init /\ [][CacheNext]_vars

\* ---------------------------------------------------------------- properties

Started(h) == pc[h] # "idle"
Done(h) == pc[h] = "done"
Automatic(h) == Started(h) /\ body[h].report_type = "Automatic"
Manual(h) == Started(h) /\ body[h].report_type = "Manual"
SameReport(g, h) ==
  /\ body[g].ext_version = body[h].ext_version
  /\ body[g].message = body[h].message

\* Number of sink calls handler h has made.
SinkCalls(h) == Len(calls[h])

\* Handler h has executed the insert of line 73.
Inserted(h) ==
  /\ Automatic(h)
  /\ \/ pc[h] \in {"unlock", "send", "sending"}
     \/ SinkCalls(h) > 0

\* The Automatic handlers that carry the same extVersion and message as h.
Group(h) == {g \in Handlers : Automatic(g) /\ SameReport(g, h)}

\* An Automatic handler with another (extVersion, message) put h's key in
\* the cache: for h's group the cache did hold their key.
KeyTakenByOther(h) ==
  \E g \in Handlers \ Group(h) : Inserted(g) /\ msg[g] = msg[h]

\* C1: among the Automatic submissions with identical extVersion and
\* message, at most one has reached the sink in every state, and exactly
\* one has once all of them have finished, provided the key was not put in
\* the cache by a submission outside the group.
C1_OneDispatchPerKey ==
  \A h \in Handlers : Automatic(h) =>
    /\ Cardinality({g \in Group(h) : SinkCalls(g) > 0}) <= 1
    /\ \A g \in Group(h) : SinkCalls(g) <= 1
    /\ ((\A g \in Group(h) : Done(g)) /\ ~KeyTakenByOther(h))
         => Cardinality({g \in Group(h) : SinkCalls(g) = 1}) = 1

\* All handlers carried the same Automatic report and all have finished.
C1_Witness ==
  /\ \A h \in Handlers : Automatic(h) /\ Done(h) /\ SameReport(h, 1)
  /\ Cardinality({h \in Handlers : SinkCalls(h) = 1}) = 1

\* C2: a Manual submission makes no more than one sink call, has made it
\* as soon as it left the send position, and has made exactly one when it
\* has finished, whatever the cache holds and whatever the other handlers do.
C2_ManualAlwaysDispatches ==
  \A h \in Handlers : Manual(h) =>
    /\ SinkCalls(h) <= 1
    /\ pc[h] \in {"send", "sending", "done"}
    /\ pc[h] \in {"sending", "done"} => SinkCalls(h) = 1

\* A finished Manual report whose key an Automatic report had put in the
\* cache, next to an identical finished Manual report.
C2_Witness ==
  \E g, h \in Handlers :
    /\ g # h
    /\ Manual(g) /\ Done(g) /\ Manual(h) /\ Done(h) /\ SameReport(g, h)
    /\ Cache_contains(cache, DedupKey(body[h]))
    /\ SinkCalls(g) = 1 /\ SinkCalls(h) = 1

\* C3: a handler of a Manual submission never holds the cache mutex, never
\* stands at the lock or the check, and none of its steps changes the cache.
C3_ManualLeavesCacheAlone ==
  [][\A h \in Handlers :
       (body'[h].report_type = "Manual") =>
          /\ mutex' # h
          /\ pc'[h] \notin {"lock", "check", "unlock"}
          /\ (pc'[h] # pc[h]) => (cache' = cache /\ mutex' = mutex)]_vars

\* A Manual report has finished while the cache holds keys.
C3_Witness ==
  \E h \in Handlers : Manual(h) /\ Done(h) /\ DOMAIN cache # {}

\* C4: no handler holds the cache mutex while it is at the send: from the
\* moment it leaves the if block until it returns, the guard is released.
C4_NoSendUnderLock ==
  \A h \in Handlers : pc[h] \in {"send", "sending", "done"} => mutex # h

\* An Automatic handler that inserted its key is in the sink call while
\* another handler holds the mutex.
C4_Witness ==
  \E g, h \in Handlers :
    /\ Automatic(h) /\ pc[h] = "sending"
    /\ g # h /\ mutex = g

\* C5: two Automatic submissions with equal message and different
\* extVersion have different keys, and each makes its own sink call when it
\* is the only submission of its key.
C5_KeyDistinctness ==
  \A g, h \in Handlers :
    (/\ Automatic(g) /\ Automatic(h)
     /\ body[g].message = body[h].message
     /\ body[g].ext_version # body[h].ext_version)
    => /\ msg[g] # msg[h]
       /\ (Done(g) /\ Done(h)
           /\ \A o \in Handlers \ {g, h} : ~(Automatic(o) /\ msg[o] \in {msg[g], msg[h]}))
          => (SinkCalls(g) = 1 /\ SinkCalls(h) = 1)

\* Two finished Automatic reports with the same message and different
\* versions, both sent.
C5_Witness ==
  \E g, h \in Handlers :
    /\ Automatic(g) /\ Automatic(h) /\ Done(g) /\ Done(h)
    /\ body[g].message = body[h].message
    /\ body[g].ext_version # body[h].ext_version
    /\ SinkCalls(g) = 1 /\ SinkCalls(h) = 1

\* The last answered sink call of handler h failed.
SinkFailed(h) == replies[h] # << >> /\ replies[h][Len(replies[h])]

\* C6: when the sink call of an Automatic submission failed, the caller got
\* the error, the key is still in the cache, and every other Automatic
\* submission with the same extVersion and message makes no sink call and
\* returns success.
C6_NoRollback ==
  \A h \in Handlers : (Automatic(h) /\ SinkFailed(h)) =>
    /\ result[h] = "Err"
    /\ Cache_contains(cache, msg[h])
    /\ \A g \in Handlers \ {h} : (Automatic(g) /\ SameReport(g, h)) =>
         /\ SinkCalls(g) = 0
         /\ ~Inserted(g)
         /\ Done(g) => result[g] = "OK"

\* An Automatic report failed at the sink and an identical one has
\* returned success without a sink call.
C6_Witness ==
  \E g, h \in Handlers :
    /\ g # h
    /\ Automatic(h) /\ SinkFailed(h) /\ result[h] = "Err"
    /\ Automatic(g) /\ SameReport(g, h) /\ Done(g)
    /\ result[g] = "OK" /\ SinkCalls(g) = 0

\* C7: a handler returns the error exactly when it made a sink call and
\* that call failed; a finished handler whose sink call succeeded, or that
\* was suppressed as a duplicate, returned "OK"; an unfinished handler has
\* returned nothing.
C7_ErrorIffSinkFailed ==
  \A h \in Handlers :
    /\ (result[h] = "Err") <=> (SinkCalls(h) > 0 /\ SinkFailed(h))
    /\ (Done(h) /\ ~SinkFailed(h)) => result[h] = "OK"
    /\ ~Done(h) => result[h] = "None"
    /\ Len(replies[h]) <= SinkCalls(h)

\* The three ways to finish are all present: a failed send, a successful
\* send and a suppressed duplicate.
C7_Witness ==
  \E f, g, h \in Handlers :
    /\ Done(f) /\ SinkFailed(f) /\ result[f] = "Err"
    /\ Done(g) /\ SinkCalls(g) = 1 /\ ~SinkFailed(g) /\ result[g] = "OK"
    /\ Done(h) /\ SinkCalls(h) = 0 /\ result[h] = "OK"

\* C8: the step of an Automatic handler that finds its key in the cache
\* ends the handler with "OK", makes no sink call and leaves the cache as
\* it was.
C8_DuplicateSuppressed ==
  [][\A h \in Handlers :
       (pc[h] = "check" /\ Cache_contains(cache, msg[h]) /\ pc'[h] # pc[h]) =>
          /\ pc'[h] = "done"
          /\ result'[h] = "OK"
          /\ calls'[h] = << >>
          /\ cache' = cache]_vars

\* A suppressed duplicate: an Automatic report finished without a sink
\* call while its key is in the cache.
C8_Witness ==
  \E h \in Handlers :
    /\ Automatic(h) /\ Done(h) /\ SinkCalls(h) = 0 /\ result[h] = "OK"
    /\ Cache_contains(cache, msg[h])

\* C9: a handler makes at most one sink call; once its call has failed it
\* has returned the error and stands at the end with that single call.
C9_NoRetry ==
  \A h \in Handlers :
    /\ SinkCalls(h) <= 1
    /\ SinkFailed(h) => (Done(h) /\ result[h] = "Err" /\ SinkCalls(h) = 1)

\* A handler whose only sink call failed.
C9_Witness ==
  \E h \in Handlers : SinkFailed(h) /\ Done(h) /\ SinkCalls(h) = 1

\* C10: no step takes a key out of the cache or changes its marker.
C10_CacheOnlyGrows ==
  [][\A k \in DOMAIN cache : k \in DOMAIN cache' /\ cache'[k] = cache[k]]_vars

\* The cache grew while it held a key, and a send failed: two keys or
\* more are held after a failed send.
C10_Witness ==
  /\ Cardinality(DOMAIN cache) >= 2
  /\ \E h \in Handlers : Automatic(h) /\ SinkFailed(h)

\* C11: the cache is empty until an insert has run, and in every state it
\* holds exactly the keys of the Automatic handlers that have executed
\* their insert, each with the marker true.
C11_CacheIsInsertedKeys ==
  /\ DOMAIN cache = {msg[h] : h \in {g \in Handlers : Inserted(g)}}
  /\ \A k \in DOMAIN cache : cache[k] = TRUE
  /\ \A h \in Handlers : Automatic(h) =>
       (Cache_contains(cache, msg[h]) <=> \E g \in Handlers : Inserted(g) /\ msg[g] = msg[h])

\* One Automatic handler has inserted its key, another one with a
\* different key waits for the lock and its key is not in the cache.
C11_Witness ==
  \E g, h \in Handlers :
    /\ Inserted(g) /\ Cache_contains(cache, msg[g])
    /\ Automatic(h) /\ pc[h] = "lock" /\ ~Cache_contains(cache, msg[h])

\* C12: every payload handed to the sink has the title "Automatic Report"
\* for an Automatic submission and "Manual Report" otherwise, the message
\* as description, "v" followed by extVersion as footer, and the same
\* sender name and avatar URL as every other payload.
C12_PayloadFields ==
  \A h \in Handlers : \A i \in 1..Len(calls[h]) :
    /\ calls[h][i].title =
         (IF body[h].report_type = "Automatic" THEN "Automatic Report" ELSE "Manual Report")
    /\ body[h].report_type = "Manual" => calls[h][i].title = "Manual Report"
    /\ calls[h][i].description = body[h].message
    /\ Len(calls[h][i].footer) = 1 + Len(body[h].ext_version)
    /\ Head(calls[h][i].footer) = "v"
    /\ Tail(calls[h][i].footer) = body[h].ext_version
    /\ calls[h][i].username = "WNPRedux Reporter"
    /\ calls[h][i].avatar_url = AppConfig.webhook_avatar_url
    /\ \A g \in Handlers : \A j \in 1..Len(calls[g]) :
         /\ calls[g][j].username = calls[h][i].username
         /\ calls[g][j].avatar_url = calls[h][i].avatar_url

\* A Manual and an Automatic report with different messages and versions
\* have both been handed to the sink.
C12_Witness ==
  \E g, h \in Handlers :
    /\ Manual(g) /\ SinkCalls(g) = 1
    /\ Automatic(h) /\ SinkCalls(h) = 1
    /\ body[g].message # body[h].message
    /\ body[g].ext_version # body[h].ext_version

\* Some other Automatic handler with the key of h acquired the lock before
\* h did: it has been through the if block already.
LockedBefore(h) ==
  \E g \in Handlers \ {h} :
    Automatic(g) /\ msg[g] = msg[h] /\ pc[g] \in {"send", "sending", "done"}

\* C13: of the Automatic handlers with one key, the one that holds the lock
\* first finds the key absent, inserts it and goes on to the send and the
\* sink call; each one that holds the lock after it finds the key present
\* and returns "OK" without a sink call.
C13_FirstLockerDispatches ==
  [][\A h \in Handlers :
       /\ (pc[h] = "check" /\ pc'[h] # pc[h]) =>
            IF LockedBefore(h)
              THEN /\ Cache_contains(cache, msg[h])
                   /\ pc'[h] = "done" /\ result'[h] = "OK" /\ calls'[h] = << >>
              ELSE /\ ~Cache_contains(cache, msg[h])
                   /\ pc'[h] = "unlock" /\ Cache_contains(cache', msg[h])
       /\ (pc[h] = "unlock" /\ pc'[h] # pc[h]) => pc'[h] = "send"
       /\ (pc[h] = "send" /\ pc'[h] # pc[h]) =>
            (pc'[h] = "sending" /\ Len(calls'[h]) = 1)]_vars

\* The first holder of the lock is in its sink call, a later handler with
\* the same key has been suppressed and a third one holds the lock.
C13_Witness ==
  \E f, g, h \in Handlers :
    /\ Automatic(f) /\ pc[f] = "sending"
    /\ Automatic(g) /\ msg[g] = msg[f] /\ Done(g) /\ SinkCalls(g) = 0
    /\ Automatic(h) /\ msg[h] = msg[f] /\ pc[h] = "check" /\ mutex = h

\* C14: at most one handler is between the acquisition and the release of
\* the cache mutex, that handler is the holder of the mutex, and only the
\* holder's step changes the cache.
C14_AtomicCheckAndInsert ==
  /\ [](/\ Cardinality({h \in Handlers : pc[h] \in {"check", "unlock"}}) <= 1
        /\ \A h \in Handlers : (pc[h] \in {"check", "unlock"}) <=> (mutex = h))
  /\ [][(cache' # cache) =>
          (mutex # Free /\ pc[mutex] = "check" /\ pc'[mutex] = "unlock")]_vars

\* One handler holds the mutex after its insert while two others with the
\* same key wait for the lock.
C14_Witness ==
  \E f, g, h \in Handlers :
    /\ f # g
    /\ pc[h] = "unlock" /\ mutex = h /\ Cache_contains(cache, msg[h])
    /\ pc[f] = "lock" /\ msg[f] = msg[h]
    /\ pc[g] = "lock" /\ msg[g] = msg[h]

\* C15: whenever an Automatic handler is at the send, is in the sink call
\* or has made one, its key is in the cache.
C15_SeenBeforeSend ==
  \A h \in Handlers :
    (Automatic(h) /\ (pc[h] \in {"send", "sending"} \/ SinkCalls(h) > 0))
      => Cache_contains(cache, msg[h])

\* One Automatic sink call is in progress, one has failed and one has
\* succeeded, for three keys.
C15_Witness ==
  \E f, g, h \in Handlers :
    /\ Automatic(f) /\ pc[f] = "sending"
    /\ Automatic(g) /\ Done(g) /\ SinkFailed(g)
    /\ Automatic(h) /\ Done(h) /\ SinkCalls(h) = 1 /\ ~SinkFailed(h)

\* C17: an Automatic submission is suppressed (finished without a sink
\* call) only if another Automatic submission with the same extVersion and
\* the same message has executed the insert.
C17_SuppressedOnlyBySamePair ==
  \A h \in Handlers :
    (Automatic(h) /\ Done(h) /\ SinkCalls(h) = 0) =>
      \E g \in Handlers \ {h} : Inserted(g) /\ SameReport(g, h)

\* C19: inserting a key that is present leaves the cache as it is,
\* inserting a key twice gives the cache that inserting it once gives, and
\* every stored marker is true.
C19_InsertIdempotent ==
  /\ \A k \in DOMAIN cache : cache[k] = TRUE
  /\ \A key \in CacheKeys :
       LET once == Cache_insert(cache, key, TRUE)
           twice == Cache_insert(once, key, TRUE)
       IN /\ twice = once
          /\ Cache_contains(once, key)
          /\ Cache_contains(cache, key) => once = cache
          /\ DOMAIN once = (DOMAIN cache) \cup {key}

\* A cache that holds several keys, on which the insert of a present key
\* and of an absent key both apply.
C19_Witness ==
  /\ Cardinality(DOMAIN cache) >= 2
  /\ \E key \in CacheKeys : ~Cache_contains(cache, key)
  /\ \A h \in Handlers : pc[h] = "idle"

\* C16: with a sink that may never answer, whenever one handler is
\* suspended in its sink call, every other started handler still gets
\* through the lock and the check and reaches its own sink call or its
\* return.
C16_SlowSinkBlocksNobody ==
  \A g, h \in Handlers :
    (g # h /\ pc[g] = "sending" /\ Started(h)) ~> (pc[h] \in {"sending", "done"})

\* One handler is suspended in its sink call and the other, with the same
\* key, has gone through the lock and returned.
C16_Witness ==
  \E g, h \in Handlers :
    /\ g # h
    /\ Automatic(g) /\ pc[g] = "sending"
    /\ Automatic(h) /\ msg[h] = msg[g] /\ Done(h) /\ SinkCalls(h) = 0

\* C18: under fair scheduling and a sink that answers, every started
\* handler eventually returns "OK" or the error, and the mutex is
\* eventually released by every handler that acquired it.
C18_EveryHandlerReturns ==
  \A h \in Handlers :
    /\ Started(h) ~> (Done(h) /\ result[h] \in {"OK", "Err"})
    /\ (mutex = h) ~> (mutex # h)

\* All handlers of the run have returned and the mutex is free, one after
\* the insert path and one after the early return.
C18_Witness ==
  /\ mutex = Free
  /\ \A h \in LiveHandlers : Done(h) /\ result[h] \in {"OK", "Err"}
  /\ \E g, h \in LiveHandlers :
       /\ Automatic(g) /\ SinkCalls(g) = 1
       /\ Automatic(h) /\ SinkCalls(h) = 0
====
